---- MODULE Spec2Model ----
(***************************************************************************)
(* State-machine model of src/examples/react-app/src/App.tsx: the          *)
(* FlowLinesLayer (geometry template, attribute accessors, lifecycle       *)
(* handlers initializeState / updateState / draw) and the example App      *)
(* (tooltip state driven by hover and view-state events).                  *)
(***************************************************************************)
EXTENDS Integers, Sequences, FiniteSets, TLC

VARIABLES
    props,             \* this.props of the layer (None before construction)
    state,             \* this.state of the layer: [model |-> None or a Model]
    attributeManager,  \* the layer's attribute manager (None before initializeState)
    alive,             \* handles of the GPU models created and not destroyed
    gl,                \* the GL context state the layer touches
    lastOp,            \* the last lifecycle handler run, with what it did
    toggle,            \* progress of a drawOutline true -> false -> true sequence
    data,              \* App: useState<LoadedData>()
    viewState,         \* App: useState<ViewportProps>()
    tooltip,           \* App: useState<TooltipState>()
    appOp              \* App: the last event handled, with its argument

layerVars == <<props, state, attributeManager, alive, gl, lastOp, toggle>>
appVars == <<data, viewState, tooltip, appOp>>
vars ==
    <<props, state, attributeManager, alive, gl, lastOp, toggle,
      data, viewState, tooltip, appOp>>

\* ------------------------------------------------------------------ bounds
MaxFlows == 1
MaxThickness == 2
MaxCoord == 2
MaxZoom == 1

\* ------------------------------------------------------------ JS values
None == [t |-> "undefined"]

JsString(s) == [t |-> "string", v |-> s]

JsArray(ref, value) == [t |-> "array", ref |-> ref, value |-> value]

\* JavaScript truthiness of the values the model uses: undefined and the
\* empty string are falsy, every array (object) is truthy.
Truthy(x) ==
    CASE x.t = "undefined" -> FALSE
      [] x.t = "string" -> x.v # ""
      [] OTHER -> TRUE

\* Float32Array element conversion: integers of magnitude up to 2^24 are
\* represented exactly, larger ones lose their low bit.
Fround(x) ==
    IF x >= -16777216 /\ x <= 16777216 THEN x ELSE 2 * (x \div 2)

Float32Array(s) == [i \in 1..Len(s) |-> Fround(s[i])]

\* ------------------------------------------------------ geometry template
DEFAULT_COLOR == JsArray("DEFAULT_COLOR", <<0, 132, 193, 255>>)

INNER_SIDE_OUTLINE_THICKNESS == 1

POSITIONS ==
    << 1, 0, 0,
       1, 2, -3,
       1, 1, -3,
       1, 0, 0,
       1, 1, -3,
       0, 1, 0,
       1, 0, 0,
       0, 1, 0,
       0, 0, 0 >>

getOutlinePixelOffsets(tout, tin) ==
    << -tin, 2*tout, 1,
       2*tout, -tout, 1,
       tout, -tout, 1,
       -tin, 2*tout, 1,
       tout, -tout, 1,
       tout, -tout, 1,
       -tin, 2*tout, 1,
       tout, -tout, 1,
       -tin, -tout, 1 >>

ZEROES ==
    << 0, 0, 0,
       0, 0, 0,
       0, 0, 0,
       0, 0, 0,
       0, 0, 0,
       0, 0, 0,
       0, 0, 0,
       0, 0, 0,
       0, 0, 0 >>

\* new Model(device, {id, geometry: new Geometry({...}), isInstanced: true})
NewModel(p, positions, pixelOffsets) ==
    [t |-> "model",
     id |-> p.id,
     geometry |-> [topology |-> "triangle-list",
                   positions |-> Float32Array(positions),
                   normals |-> Float32Array(pixelOffsets)],
     isInstanced |-> TRUE,
     uniforms |-> None]

\* mutants of _getModel
_getModel_noFillOffsets(p) ==
    LET positions == (IF p.drawOutline THEN POSITIONS ELSE <<>>) \o POSITIONS
        pixelOffsets ==
            IF p.drawOutline
            THEN getOutlinePixelOffsets(p.outlineThickness, INNER_SIDE_OUTLINE_THICKNESS)
            ELSE <<>>
    IN NewModel(p, positions, pixelOffsets)

_getModel_fillFirst(p) ==
    LET positions == POSITIONS \o (IF p.drawOutline THEN POSITIONS ELSE <<>>)
        pixelOffsets ==
            ZEROES \o
            (IF p.drawOutline
             THEN getOutlinePixelOffsets(p.outlineThickness, INNER_SIDE_OUTLINE_THICKNESS)
             ELSE <<>>)
    IN NewModel(p, positions, pixelOffsets)

_getModel_widenedShell(p) ==
    LET shell == [i \in 1..Len(POSITIONS) |->
                     IF i % 3 = 2 THEN 2 * POSITIONS[i] ELSE POSITIONS[i]]
        positions == (IF p.drawOutline THEN shell ELSE <<>>) \o POSITIONS
        pixelOffsets ==
            (IF p.drawOutline
             THEN getOutlinePixelOffsets(p.outlineThickness, INNER_SIDE_OUTLINE_THICKNESS)
             ELSE <<>>) \o ZEROES
    IN NewModel(p, positions, pixelOffsets)

_getModel(p) ==
    LET tout == p.outlineThickness
        tin == INNER_SIDE_OUTLINE_THICKNESS
        positions == (IF p.drawOutline THEN <<>> \o POSITIONS ELSE <<>>) \o POSITIONS
        pixelOffsets ==
            (IF p.drawOutline THEN <<>> \o getOutlinePixelOffsets(tout, tin) ELSE <<>>)
            \o ZEROES
    IN NewModel(p, positions, pixelOffsets)

\* ------------------------------------------------------------- accessors
\* The colour representations the records carry: no colour field, an empty
\* (falsy) string, and CSS colour strings.
ColorValues ==
    {None, JsString(""), JsString("#0084c1"), JsString("rgba(255,0,0,0.5)")}

\* d3-color's reading of the colour strings: channels and opacity (in percent)
ParsedColor(s) ==
    CASE s = "#0084c1" -> [r |-> 0, g |-> 132, b |-> 193, opacity |-> 100]
      [] s = "rgba(255,0,0,0.5)" -> [r |-> 255, g |-> 0, b |-> 0, opacity |-> 50]
      [] OTHER -> [r |-> 255, g |-> 255, b |-> 255, opacity |-> 100]

\* colorAsRgba of @chatondearu/flowmap.gl.data: the colour converted to four
\* RGBA bytes, the opacity rounded to the nearest byte; always a fresh array.
colorAsRgba(c) ==
    LET col == ParsedColor(c.v)
    IN JsArray("colorAsRgba",
               <<col.r, col.g, col.b, (col.opacity * 255 + 50) \div 100>>)

FlowRecords == [color : ColorValues]

FlowData == UNION {[1..n -> FlowRecords] : n \in 0..MaxFlows}

\* mutant of getColor
getColor_alwaysDefault(d) == DEFAULT_COLOR

\* defaultProps.getColor: (d.color && colorAsRgba(d.color)) || DEFAULT_COLOR
getColor(d) ==
    LET conj == IF Truthy(d.color) THEN colorAsRgba(d.color) ELSE d.color
    IN IF Truthy(conj) THEN conj ELSE DEFAULT_COLOR

getSourcePosition(d) == <<0, 0>>

getTargetPosition(d) == <<0, 0>>

getPickable(d) == 1

\* ------------------------------------------------------------------ props
\* The uniform props the host supplies: the defaults (opaque white, 12) and
\* one other setting of both.
UniformProps ==
    {[outlineColor |-> <<255, 255, 255, 255>>, thicknessUnit |-> 12],
     [outlineColor |-> <<0, 0, 0, 255>>, thicknessUnit |-> 6]}

PropsSet ==
    {[id |-> "flow-lines",
      data |-> d,
      drawOutline |-> b,
      outlineThickness |-> th,
      outlineColor |-> u.outlineColor,
      thicknessUnit |-> u.thicknessUnit] :
        d \in FlowData, b \in BOOLEAN, th \in 1..MaxThickness, u \in UniformProps}

ChangeFlagsSet == [extensionsChanged : BOOLEAN, dataChanged : BOOLEAN]

HostUniforms == {[opacity |-> 1]}

InstancedAttributes ==
    {"instanceSourcePositions", "instanceTargetPositions", "instanceThickness",
     "instanceEndpointOffsets", "instanceColors", "instancePickable"}

NoOp ==
    [op |-> "none", extensionsChanged |-> FALSE,
     effects |-> <<>>, error |-> "none", drawCalls |-> <<>>]

VertexCount(m) == Len(m.geometry.positions) \div 3

\* attributeManager.invalidateAll()
InvalidateAll(am) == [am EXCEPT !.needsUpdate = am.attributes, !.values = None]

\* -------------------------------------------------------------- lifecycle
Init ==
    /\ props = None
    /\ state = [model |-> None]
    /\ attributeManager = None
    /\ alive = {}
    /\ gl = [lineWidth |-> None]
    /\ lastOp = NoOp
    /\ toggle = [phase |-> 0, initial |-> None]
    /\ data = None
    /\ viewState = None
    /\ tooltip = None
    /\ appOp = [op |-> "none", info |-> None]

\* constructor(props)
construct(newProps) ==
    /\ props = None
    /\ props' = newProps
    /\ lastOp' = [NoOp EXCEPT !.op = "constructor"]
    /\ UNCHANGED <<state, attributeManager, alive, gl, toggle>>

initializeState ==
    /\ props # None
    /\ attributeManager = None
    /\ attributeManager' =
          [t |-> "attributeManager", attributes |-> InstancedAttributes,
           needsUpdate |-> InstancedAttributes, values |-> None]
    /\ lastOp' = [NoOp EXCEPT !.op = "initializeState"]
    /\ UNCHANGED <<props, state, alive, gl, toggle>>

\* The drawOutline true -> false -> true sequence (outlineThickness unchanged)
\* an update continues, starts or abandons.
ToggleStep(newProps) ==
    IF newProps.outlineThickness # props.outlineThickness
    THEN [phase |-> 0, initial |-> None]
    ELSE IF /\ toggle.phase = 1
            /\ ~props.drawOutline
            /\ newProps.drawOutline
    THEN [toggle EXCEPT !.phase = 2]
    ELSE IF /\ props.drawOutline
            /\ ~newProps.drawOutline
            /\ state.model # None
            /\ VertexCount(state.model) = 18
    THEN [phase |-> 1, initial |-> state.model.geometry]
    ELSE [phase |-> 0, initial |-> None]

\* super.updateState(params): the base layer invalidates every attribute
\* when the data changed.  Then the handler proper: when `rebuild`, the
\* current model is destroyed (when `destroy`), a new one is built from the
\* new props and installed, and all attributes are invalidated.
UpdateStep(newProps, changeFlags, rebuild, destroy) ==
    LET old == state.model
        afterDestroy == IF destroy /\ old # None THEN alive \ {old.handle} ELSE alive
        handle == CHOOSE h \in 1..(Cardinality(afterDestroy) + 1) : h \notin afterDestroy
        built == [handle |-> handle] @@ _getModel(newProps)
        am0 == IF changeFlags.dataChanged
               THEN InvalidateAll(attributeManager) ELSE attributeManager
    IN /\ props # None
       /\ attributeManager # None
       /\ newProps.id = props.id
       /\ newProps.data # props.data => changeFlags.dataChanged
       /\ props' = newProps
       /\ toggle' = ToggleStep(newProps)
       /\ IF rebuild
          THEN /\ state' = [state EXCEPT !.model = built]
               /\ alive' = afterDestroy \cup {handle}
               /\ attributeManager' = InvalidateAll(am0)
               /\ lastOp' =
                    [NoOp EXCEPT
                       !.op = "updateState",
                       !.extensionsChanged = changeFlags.extensionsChanged,
                       !.effects =
                          (IF destroy /\ old # None
                           THEN << <<"destroy", old.handle>> >> ELSE <<>>)
                          \o << <<"create", handle>>, <<"invalidateAll", 0>> >>]
          ELSE /\ attributeManager' = am0
               /\ lastOp' =
                    [NoOp EXCEPT
                       !.op = "updateState",
                       !.extensionsChanged = changeFlags.extensionsChanged]
               /\ UNCHANGED <<state, alive>>
       /\ UNCHANGED gl

\* mutants of updateState
updateState_noDestroy(newProps, changeFlags) ==
    UpdateStep(newProps, changeFlags, changeFlags.extensionsChanged, FALSE)

updateState_onAnyChange(newProps, changeFlags) ==
    UpdateStep(newProps, changeFlags,
               changeFlags.extensionsChanged \/ newProps # props, TRUE)

updateState(newProps, changeFlags) ==
    UpdateStep(newProps, changeFlags, changeFlags.extensionsChanged, TRUE)

\* The host's attribute update: every invalidated attribute is recomputed
\* from the current data with the layer's accessors.
updateAttributes ==
    /\ props # None
    /\ attributeManager # None
    /\ attributeManager.needsUpdate # {}
    /\ attributeManager' =
          [attributeManager EXCEPT
             !.needsUpdate = {},
             !.values =
                [t |-> "values",
                 instanceSourcePositions |->
                    [i \in 1..Len(props.data) |-> getSourcePosition(props.data[i])],
                 instanceTargetPositions |->
                    [i \in 1..Len(props.data) |-> getTargetPosition(props.data[i])],
                 instanceColors |->
                    [i \in 1..Len(props.data) |-> getColor(props.data[i])],
                 instancePickable |->
                    [i \in 1..Len(props.data) |-> getPickable(props.data[i])]]]
    /\ lastOp' = [NoOp EXCEPT !.op = "updateAttributes"]
    /\ UNCHANGED <<props, state, alive, gl, toggle>>

\* draw({uniforms}): gl.lineWidth(1), then this.state.model.setUniforms(..).draw();
\* with no model installed the property access on undefined throws a TypeError.
draw(uniforms) ==
    /\ props # None
    /\ attributeManager # None
    /\ gl' = [gl EXCEPT !.lineWidth = 1]
    /\ IF state.model = None
       THEN /\ lastOp' = [NoOp EXCEPT !.op = "draw", !.error = "TypeError"]
            /\ UNCHANGED state
       ELSE LET m == [state.model EXCEPT
                        !.uniforms =
                           [t |-> "uniforms",
                            host |-> uniforms,
                            outlineColor |->
                               [i \in 1..Len(props.outlineColor) |->
                                   <<props.outlineColor[i], 255>>],
                            thicknessUnit |-> props.thicknessUnit * 2,
                            gap |-> <<1, 2>>]]
            IN /\ state' = [state EXCEPT !.model = m]
               /\ lastOp' =
                    [NoOp EXCEPT !.op = "draw",
                                 !.drawCalls = << [handle |-> m.handle,
                                                   geometry |-> m.geometry,
                                                   isInstanced |-> m.isInstanced] >>]
    /\ UNCHANGED <<props, attributeManager, alive, toggle>>

\* The data sets one edit away: a record appended, the last record dropped.
DataEdits(d) ==
    {Append(d, r) : r \in IF Len(d) < MaxFlows THEN FlowRecords ELSE {}}
    \cup {SubSeq(d, 1, Len(d) - 1) : k \in IF Len(d) > 0 THEN {0} ELSE {}}

\* The props the host hands to an update: the current ones with at most one
\* of them (or the uniform props) replaced, the data by one edit (several props changed at once leave the layer as the same
\* changes made one update after another do, the last one carrying the flags).
NextProps ==
    {props}
    \cup {[props EXCEPT !.drawOutline = b] : b \in BOOLEAN}
    \cup {[props EXCEPT !.outlineThickness = th] : th \in 1..MaxThickness}
    \cup {[props EXCEPT !.outlineColor = u.outlineColor,
                        !.thicknessUnit = u.thicknessUnit] : u \in UniformProps}
    \cup {[props EXCEPT !.data = d] : d \in DataEdits(props.data)}

\* The change flags the host computes for an update to newProps: dataChanged
\* when the data differs, or on an update that replaces no prop (an update
\* trigger); extensionsChanged whenever the layer's extensions changed.
NextChangeFlags(newProps) ==
    {cf \in ChangeFlagsSet :
        /\ newProps.data # props.data => cf.dataChanged
        /\ cf.dataChanged => (newProps.data # props.data \/ newProps = props)}

Next ==
    \/ (\E p \in PropsSet : construct(p)) /\ UNCHANGED appVars
    \/ initializeState /\ UNCHANGED appVars
    \/ /\ props # None
       /\ \E p \in NextProps : \E cf \in NextChangeFlags(p) : updateState(p, cf)
       /\ UNCHANGED appVars
    \/ updateAttributes /\ UNCHANGED appVars
    \/ (\E u \in HostUniforms : draw(u)) /\ UNCHANGED appVars

Spec == Init /\ [][Next]_vars

\* -------------------------------------------------------------------- App
\* The data fetchData resolves to: three locations, two flows.
LoadedData ==
    [t |-> "object",
     locations |-> <<[id |-> "A", name |-> "A"], [id |-> "B", name |-> "B"],
                     [id |-> "C", name |-> "C"]>>,
     flows |-> <<[origin |-> "A", dest |-> "B", count |-> 10],
                 [origin |-> "B", dest |-> "C", count |-> 5]>>]

Sum(f, n) == IF n = 0 THEN 0 ELSE f[1] + (IF n = 1 THEN 0 ELSE f[2])

\* The totals a location picking info carries.
Totals(id) ==
    LET fl == LoadedData.flows
    IN [incomingCount |->
           Sum([i \in 1..2 |-> IF fl[i].dest = id /\ fl[i].origin # id
                               THEN fl[i].count ELSE 0], 2),
        outgoingCount |->
           Sum([i \in 1..2 |-> IF fl[i].origin = id /\ fl[i].dest # id
                               THEN fl[i].count ELSE 0], 2),
        internalCount |->
           Sum([i \in 1..2 |-> IF fl[i].origin = id /\ fl[i].dest = id
                               THEN fl[i].count ELSE 0], 2)]

Coords == 0..MaxCoord

\* The picking infos onHover receives: undefined, a location, a flow, or an
\* object of another picking type.
HoverInfos ==
    {None}
    \cup {[t |-> "object", type |-> "location", x |-> x, y |-> y,
           name |-> LoadedData.locations[i].name,
           totals |-> Totals(LoadedData.locations[i].id)] :
             x \in Coords, y \in Coords, i \in 1..3}
    \cup {[t |-> "object", type |-> "flow", x |-> x, y |-> y,
           origin |-> [id |-> LoadedData.flows[i].origin],
           dest |-> [id |-> LoadedData.flows[i].dest],
           count |-> LoadedData.flows[i].count] :
             x \in Coords, y \in Coords, i \in 1..2}
    \cup {[t |-> "object", type |-> "other", x |-> x, y |-> y] :
             x \in Coords, y \in Coords}

\* mutant of getTooltipState
getTooltipState_swappedPosition(info) ==
    IF ~Truthy(info) THEN None
    ELSE IF info.type \in {"location", "flow"}
    THEN [t |-> "object", position |-> [left |-> info.y, top |-> info.x],
          content |-> <<info.type>>]
    ELSE None

getTooltipState(info) ==
    IF ~Truthy(info) THEN None
    ELSE LET position == [left |-> info.x, top |-> info.y]
         IN CASE info.type = "location" ->
                   [t |-> "object", position |-> position,
                    content |->
                       << <<info.name>>,
                          <<"Incoming trips: ", info.totals.incomingCount>>,
                          <<"Outgoing trips: ", info.totals.outgoingCount>>,
                          <<"Internal or round trips: ", info.totals.internalCount>> >>]
              [] info.type = "flow" ->
                   [t |-> "object", position |-> position,
                    content |-> << <<info.origin.id, " -> ", info.dest.id>>,
                                   <<info.count>> >>]
              [] OTHER -> None

\* The view state fitted to the locations, for a window of the given size.
getViewStateForLocations(width, height) ==
    [t |-> "object", longitude |-> 0, latitude |-> 0, zoom |-> 0,
     width |-> width, height |-> height]

\* useEffect(..., []): fetchData resolves, setData and setViewState run.
fetchDataResolved(width, height) ==
    /\ data = None
    /\ data' = LoadedData
    /\ viewState' = getViewStateForLocations(width, height)
    /\ appOp' = [op |-> "fetchData", info |-> None]
    /\ UNCHANGED tooltip

\* DeckGL is rendered only once viewState is set.
handleViewStateChange(newViewState) ==
    /\ viewState # None
    /\ viewState' = newViewState
    /\ tooltip' = None
    /\ appOp' = [op |-> "handleViewStateChange", info |-> None]
    /\ UNCHANGED data

\* onHover: (info) => setTooltip(getTooltipState(info)); the layer exists
\* only once data is loaded.
onHover(info) ==
    /\ data # None
    /\ viewState # None
    /\ tooltip' = getTooltipState(info)
    /\ appOp' = [op |-> "onHover", info |-> info]
    /\ UNCHANGED <<data, viewState>>

NextApp ==
    \/ fetchDataResolved(800, 600) /\ UNCHANGED layerVars
    \/ /\ viewState # None
       /\ \E z \in 0..MaxZoom : handleViewStateChange([viewState EXCEPT !.zoom = z])
       /\ UNCHANGED layerVars
    \/ (\E info \in HoverInfos : onHover(info)) /\ UNCHANGED layerVars

SpecApp == Init /\ [][NextApp]_vars

\* ----------------------------------------------------------------- claims
Installed == state.model # None

Positions == state.model.geometry.positions

Normals == state.model.geometry.normals

\* The update just run rebuilt the template from the current props.
JustRebuilt == lastOp.op = "updateState" /\ lastOp.extensionsChanged

\* Vertex v (0-based) of a flat array of triples.
Triple(a, v) == <<a[3*v + 1], a[3*v + 2], a[3*v + 3]>>

\* C1: every installed template has pixel-offset and position arrays of the
\* same length, 27 floats (9 vertices) or 54 floats (18 vertices); a template
\* just built has 18 vertices when drawOutline is true and 9 when it is
\* false, whatever the outline thickness and the flow records.
C1_TemplateSize ==
    Installed =>
        /\ Len(Positions) = Len(Normals)
        /\ Len(Positions) \in {27, 54}
        /\ VertexCount(state.model) \in {9, 18}
        /\ JustRebuilt =>
              /\ Len(Positions) = (IF props.drawOutline THEN 54 ELSE 27)
              /\ VertexCount(state.model) = (IF props.drawOutline THEN 18 ELSE 9)

C1_Witness ==
    /\ Installed
    /\ JustRebuilt
    /\ props.drawOutline
    /\ props.outlineThickness = MaxThickness
    /\ Len(props.data) = MaxFlows
    /\ Len(Normals) = 54

\* C2: every draw call uses a template built for the current drawOutline
\* value: 18 vertices iff drawOutline is true, 9 iff it is false.
C2_DrawUsesCurrentMode ==
    (lastOp.op = "draw" /\ lastOp.drawCalls # <<>>) =>
        Len(lastOp.drawCalls[1].geometry.positions) \div 3
            = (IF props.drawOutline THEN 18 ELSE 9)

\* C3 as stated: the last 9 vertices of every template have pixel offsets
\* (0, 0) and colour-mix flag 1.
C3_FillMixOne ==
    Installed =>
        \A v \in (VertexCount(state.model) - 9)..(VertexCount(state.model) - 1) :
            Triple(Normals, v) = <<0, 0, 1>>

\* C3 amended: the last 9 vertices of every template (the fill shape) have
\* pixel offsets (0, 0) and colour-mix flag 0; when there is an outline shell
\* it is the first 9 vertices, which carry the colour-mix flag 1.
C3_FillOffsetsZero ==
    Installed =>
        /\ \A v \in (VertexCount(state.model) - 9)..(VertexCount(state.model) - 1) :
              Triple(Normals, v) = <<0, 0, 0>>
        /\ VertexCount(state.model) = 18 =>
              \A v \in 0..8 : Triple(Normals, v)[3] = 1

C3_Witness ==
    /\ Installed
    /\ VertexCount(state.model) = 18
    /\ Triple(Normals, 0) = <<-1, 2, 1>>
    /\ Triple(Normals, 17) = <<0, 0, 0>>

\* C4: a draw with no model installed issues no draw call and raises no
\* error; any other draw issues exactly one instanced draw call with the
\* installed template.
C4_DrawWithoutModel ==
    lastOp.op = "draw" =>
        IF ~Installed
        THEN lastOp.drawCalls = <<>> /\ lastOp.error = "none"
        ELSE /\ lastOp.error = "none"
             /\ Len(lastOp.drawCalls) = 1
             /\ lastOp.drawCalls[1].geometry = state.model.geometry
             /\ lastOp.drawCalls[1].isInstanced

\* C5: after the updates drawOutline true -> false -> true with the outline
\* thickness unchanged, starting from a template built with drawOutline true,
\* the installed template equals the initial one element for element.
C5_ToggleRoundTrip ==
    toggle.phase = 2 =>
        /\ Installed
        /\ Positions = toggle.initial.positions
        /\ Normals = toggle.initial.normals

\* C6: the colour computed for a record without a (truthy) colour field is
\* the default constant [0,132,193,255]; for a record with a colour field it
\* is the converted colour, four components in 0..255, and not the default
\* constant.
C6_DefaultColor ==
    (attributeManager # None /\ attributeManager.values # None) =>
        /\ Len(attributeManager.values.instanceColors) = Len(props.data)
        /\ \A i \in 1..Len(props.data) :
              LET d == props.data[i]
                  c == attributeManager.values.instanceColors[i]
              IN IF ~Truthy(d.color)
                 THEN c = DEFAULT_COLOR /\ c.value = <<0, 132, 193, 255>>
                 ELSE /\ c.value = colorAsRgba(d.color).value
                      /\ c.ref # DEFAULT_COLOR.ref
                      /\ Len(c.value) = 4
                      /\ \A k \in 1..4 : c.value[k] \in 0..255

C6_Witness ==
    /\ attributeManager # None
    /\ attributeManager.values # None
    /\ Len(props.data) = 1
    /\ props.data[1].color = JsString("#0084c1")
    /\ attributeManager.values.instanceColors[1].value = DEFAULT_COLOR.value
    /\ attributeManager.values.instanceColors[1].ref = "colorAsRgba"

\* C7: after a hover event with no picked object (undefined, or a picking
\* type other than location and flow) the tooltip is undefined; after a hover
\* event tagged location or flow it is defined and placed at the event's (x, y).
C7_HoverTooltip ==
    appOp.op = "onHover" =>
        IF appOp.info = None \/ appOp.info.type \notin {"location", "flow"}
        THEN tooltip = None
        ELSE /\ tooltip # None
             /\ tooltip.position = [left |-> appOp.info.x, top |-> appOp.info.y]

C7_Witness ==
    /\ appOp.op = "onHover"
    /\ appOp.info # None
    /\ appOp.info.type = "flow"
    /\ appOp.info.x = 1
    /\ appOp.info.y = 2
    /\ tooltip # None
    /\ tooltip.position = [left |-> 1, top |-> 2]

\* C8: the only model alive is the one the layer state holds; an update that
\* rebuilds destroys the installed model first, installs a new model without
\* the old one's uniforms, and leaves every instance attribute invalidated.
C8_ModelReplaced ==
    /\ [](alive = (IF Installed THEN {state.model.handle} ELSE {}))
    /\ [][(lastOp'.op = "updateState" /\ lastOp'.extensionsChanged) =>
            /\ state.model # None =>
                  /\ Len(lastOp'.effects) = 3
                  /\ lastOp'.effects[1] = <<"destroy", state.model.handle>>
                  /\ lastOp'.effects[2][1] = "create"
            /\ state'.model # None
            /\ state'.model.uniforms = None
            /\ state'.model.geometry = _getModel(props').geometry
            /\ alive' = {state'.model.handle}
            /\ attributeManager'.needsUpdate = InstancedAttributes
            /\ attributeManager'.values = None]_vars

C8_Witness ==
    /\ JustRebuilt
    /\ Len(lastOp.effects) = 3
    /\ lastOp.effects[1][1] = "destroy"
    /\ Installed
    /\ VertexCount(state.model) = 9

\* C9: an update without extensionsChanged that changes neither drawOutline
\* nor the outline thickness destroys nothing, builds nothing and leaves the
\* layer state as it was; a draw leaves the installed template, the set of
\* live models and the props as they were.
C9_NoRebuild ==
    [][/\ (/\ lastOp'.op = "updateState"
           /\ ~lastOp'.extensionsChanged
           /\ props'.drawOutline = props.drawOutline
           /\ props'.outlineThickness = props.outlineThickness) =>
              /\ state' = state
              /\ alive' = alive
              /\ lastOp'.effects = <<>>
       /\ lastOp'.op = "draw" =>
              /\ props' = props
              /\ alive' = alive
              /\ (state'.model = None) = (state.model = None)
              /\ state.model # None =>
                    /\ state'.model.geometry = state.model.geometry
                    /\ state'.model.handle = state.model.handle]_vars

C9_Witness ==
    /\ lastOp.op = "updateState"
    /\ ~lastOp.extensionsChanged
    /\ Installed
    /\ state.model.uniforms # None
    /\ state.model.uniforms.thicknessUnit # 2 * props.thicknessUnit
    /\ VertexCount(state.model) = (IF props.drawOutline THEN 18 ELSE 9)

\* C10: in a template with an outline shell, vertex i of the shell and
\* vertex i of the fill shape have the same position triple, for i in 0..8.
C10_ShellsShareTopology ==
    (Installed /\ VertexCount(state.model) = 18) =>
        \A v \in 0..8 : Triple(Positions, v) = Triple(Positions, v + 9)

C10_Witness ==
    /\ Installed
    /\ VertexCount(state.model) = 18
    /\ Triple(Positions, 1) = <<1, 2, -3>>
    /\ Triple(Positions, 10) = <<1, 2, -3>>
    /\ Triple(Normals, 1) # Triple(Normals, 10)

====
